---- MODULE Spec2Model ----
(***************************************************************************)
(* dstore: one coordinator (Global, src/src/global.rs) owning the          *)
(* canonical key -> value map and a per-node invalidation queue, and       *)
(* caching nodes (Local, src/src/local.rs) that read through and write     *)
(* through to it and periodically drain their invalidation queue.          *)
(*                                                                         *)
(* Keys, values and frame bodies are byte strings, modelled as sequences   *)
(* of small integers.  Every coordinator handler is an operator on the map *)
(* it locks; a node operation is a sequence of actions, one per RPC, each  *)
(* made of the coordinator's critical section for that RPC followed by the *)
(* node-local code up to the next RPC (the node is behind its own mutex,   *)
(* so nothing else observes its cache in between).                         *)
(***************************************************************************)
EXTENDS Integers, Sequences, FiniteSets, TLC

\* lib.rs:20 sets MAX_BYTE_SIZE = 4_194_304.  The model scales the frame
\* size down to 2 bytes so that values below, at and above one and two frames
\* can be enumerated; every comparison and division is done as in the code.
MAX_BYTE_SIZE == 2

\* Values of the system model reach MaxFrames * MAX_BYTE_SIZE + 1 bytes.
MaxFrames == 2
\* Longest invalidation queue a remove may still extend.
MaxInval == 2

Nodes == {"n1", "n2"}
k1 == <<7>>
k2 == <<8>>
Keys == {k1, k2}
\* One key for the runs that interleave values of every size, both keys
\* with one short value for the runs about what happens to other keys.
OneKey == {k1}
EmptyBytes == <<>>

\* The byte string of length n whose i-th byte is 10 * tag + i.
Val(tag, n) == [i \in 1..n |-> 10 * tag + i]

\* Values a client hands to a node: a short one, one of exactly one frame,
\* and one of MaxFrames frames plus a one-byte tail.
Values == {Val(1, 1), Val(2, MAX_BYTE_SIZE), Val(3, MaxFrames * MAX_BYTE_SIZE + 1)}

RECURSIVE Concat(_)
\* Vec::append of every body in arrival order (global.rs:108, local.rs:241).
Concat(frames) == IF frames = <<>> THEN <<>> ELSE Head(frames) \o Concat(Tail(frames))

-----------------------------------------------------------------------------
(* Coordinator handlers (global.rs), as operators on the locked map.       *)

\* Mutant: the insert overwrites a key that is present.
GlobalInsertOverwrites(d, key, value) ==
  [ok |-> TRUE, db |-> [x \in DOMAIN d \cup {key} |-> IF x = key THEN value ELSE d[x]]]

\* Global::insert: insert only when the key is absent.
GlobalInsert(d, key, value) ==
  IF key \in DOMAIN d
    THEN [ok |-> FALSE, db |-> d]
    ELSE [ok |-> TRUE, db |-> [x \in DOMAIN d \cup {key} |-> IF x = key THEN value ELSE d[x]]]

\* Mutant: join leaves the queue of a registered id as it is.
JoinKeepsQueue(cl, id) == [x \in DOMAIN cl \cup {id} |-> IF x \in DOMAIN cl THEN cl[x] ELSE <<>>]

\* Dstore::join: (re)place the id's invalidation queue by an empty one.
Join(cl, id) == [x \in DOMAIN cl \cup {id} |-> IF x = id THEN <<>> ELSE cl[x]]

\* Dstore::contains: the size of the value, or not-found.
Contains(d, key) ==
  IF key \in DOMAIN d THEN [ok |-> TRUE, size |-> Len(d[key])] ELSE [ok |-> FALSE, size |-> 0]

\* Dstore::push.
Push(d, key, value) == GlobalInsert(d, key, value)

\* Dstore::push_file, receive loop: frame 0 is the key, the rest the value.
PushFileKey(frames) == IF frames = <<>> THEN EmptyBytes ELSE Head(frames)

PushFileValue(frames) == IF frames = <<>> THEN EmptyBytes ELSE Concat(Tail(frames))

\* Dstore::push_file: reassemble, then Global::insert.
PushFile(d, frames) == GlobalInsert(d, PushFileKey(frames), PushFileValue(frames))

\* Mutant: the handler commits what it had received when the stream broke.
PushFileAbortedCommits(d, received) == PushFile(d, received)

\* Dstore::push_file when the stream yields an error after the frames
\* received: `byte?` returns the error out of the receive loop, before
\* Global::insert is reached.
PushFileAborted(d, received) == [ok |-> FALSE, db |-> d]

\* Dstore::pull.
Pull(d, key) ==
  IF key \in DOMAIN d THEN [ok |-> TRUE, body |-> d[key]] ELSE [ok |-> FALSE, body |-> EmptyBytes]

\* The frames the task spawned by Dstore::pull_file sends for a value:
\* for i in 0..val.len() / MAX_BYTE_SIZE, val[i*MAX..(i+1)*MAX].
PullFileFrames(val) ==
  [i \in 1..(Len(val) \div MAX_BYTE_SIZE) |->
     SubSeq(val, (i - 1) * MAX_BYTE_SIZE + 1, i * MAX_BYTE_SIZE)]

\* The task spawned by Dstore::pull_file: db.get(key).unwrap() panics on an
\* absent key, the sender is dropped and the stream ends with no frame.
PullFileTask(d, key) ==
  IF key \in DOMAIN d
    THEN [panic |-> FALSE, frames |-> PullFileFrames(d[key])]
    ELSE [panic |-> TRUE, frames |-> <<>>]

\* Mutant: the fan-out loop stops after the first node.
RemoveFanoutFirstOnly(cl, key) ==
  [x \in DOMAIN cl |->
     IF x = (CHOOSE y \in DOMAIN cl : TRUE) THEN Append(cl[x], key) ELSE cl[x]]

\* Mutant: the fan-out skips the nodes that already have a key waiting.
RemoveFanoutSkipsBusy(cl, key) ==
  [x \in DOMAIN cl |-> IF cl[x] = <<>> THEN Append(cl[x], key) ELSE cl[x]]

\* Dstore::remove, first effect: push the key onto every node's queue.
RemoveFanout(cl, key) == [x \in DOMAIN cl |-> Append(cl[x], key)]

\* Mutant: remove answers ok also for a key that is absent.
RemoveDeleteAlwaysOk(d, key) == [ok |-> TRUE, db |-> [x \in DOMAIN d \ {key} |-> d[x]]]

\* Dstore::remove, second effect: delete the mapping, not-found if absent.
RemoveDelete(d, key) ==
  IF key \in DOMAIN d
    THEN [ok |-> TRUE, db |-> [x \in DOMAIN d \ {key} |-> d[x]]]
    ELSE [ok |-> FALSE, db |-> d]

\* Mutant: push_front instead of push_back.
EnQueueInFront(qs, name, value) ==
  [x \in DOMAIN qs \cup {name} |->
     IF x = name
       THEN IF name \in DOMAIN qs THEN <<value>> \o qs[name] ELSE <<value>>
       ELSE qs[x]]

\* Dstore::en_queue: push_back on the named queue, created when absent.
EnQueue(qs, name, value) ==
  [x \in DOMAIN qs \cup {name} |->
     IF x = name
       THEN IF name \in DOMAIN qs THEN Append(qs[name], value) ELSE <<value>>
       ELSE qs[x]]

\* Mutant: de_queue answers with the head and leaves it in the queue.
DeQueuePeeks(qs, name) ==
  IF name \in DOMAIN qs /\ qs[name] # <<>>
    THEN [ok |-> TRUE, body |-> Head(qs[name]), queues |-> qs]
    ELSE [ok |-> FALSE, body |-> EmptyBytes, queues |-> qs]

\* Dstore::de_queue: pop_front of the named queue, not-found when the queue
\* is absent or empty.
DeQueue(qs, name) ==
  IF name \in DOMAIN qs /\ qs[name] # <<>>
    THEN [ok |-> TRUE, body |-> Head(qs[name]), queues |-> [qs EXCEPT ![name] = Tail(qs[name])]]
    ELSE [ok |-> FALSE, body |-> EmptyBytes, queues |-> qs]

\* Dstore::update for an id the cluster map lacks: get(..) is None and
\* unwrap() panics; the handler produces no Status, and the cluster lock it
\* held is released by the unwinding with the map as it was.
UpdateUnjoined(cl, id) == [panic |-> TRUE, cluster |-> cl]

\* Mutant: pop_back instead of pop_front.
UpdatePopsBack(cl, id) ==
  IF cl[id] = <<>>
    THEN [ok |-> FALSE, body |-> EmptyBytes, cluster |-> cl]
    ELSE [ok |-> TRUE, body |-> cl[id][Len(cl[id])],
          cluster |-> [cl EXCEPT ![id] = SubSeq(cl[id], 1, Len(cl[id]) - 1)]]

\* Dstore::update: pop the head of the caller's queue.  The caller is a
\* joined node in every use below.
Update(cl, id) ==
  IF cl[id] = <<>>
    THEN [ok |-> FALSE, body |-> EmptyBytes, cluster |-> cl]
    ELSE [ok |-> TRUE, body |-> Head(cl[id]),
          cluster |-> [cl EXCEPT ![id] = Tail(cl[id])]]

-----------------------------------------------------------------------------
(* Node side (local.rs).                                                    *)

\* Local::insert_file, frame emission: the key, then
\* for i in 0..value.len() / MAX_BYTE_SIZE, value[i*MAX..(i+1)*MAX].
InsertFileValueFrames(value) ==
  [i \in 1..(Len(value) \div MAX_BYTE_SIZE) |->
     SubSeq(value, (i - 1) * MAX_BYTE_SIZE + 1, i * MAX_BYTE_SIZE)]

InsertFileFrames(key, value) == <<key>> \o InsertFileValueFrames(value)

\* Local::insert: insert_single when value.len() < MAX_BYTE_SIZE.
InsertUsesSingle(value) == Len(value) < MAX_BYTE_SIZE

\* insert_single / insert_file after contains succeeded: get_file when
\* size > MAX_BYTE_SIZE, else get_single.
RefreshUsesFile(size) == size > MAX_BYTE_SIZE

\* Local::get after contains succeeded: get_single when size < MAX_BYTE_SIZE.
GetUsesSingle(size) == size < MAX_BYTE_SIZE

\* Mutant: the cache keeps an empty value under the key.
CachePutEmpty(c, key, value) == [x \in DOMAIN c \cup {key} |-> IF x = key THEN EmptyBytes ELSE c[x]]

\* Mutant: the drain leaves the entry in the cache.
CacheDelNothing(c, key) == c

\* HashMap::insert / HashMap::remove on the node's cache.
CachePut(c, key, value) == [x \in DOMAIN c \cup {key} |-> IF x = key THEN value ELSE c[x]]

CacheDel(c, key) == [x \in DOMAIN c \ {key} |-> c[x]]

\* Local::get_file, client side: append every frame body, in order.
GetFileValue(frames) == Concat(frames)

\* The strings the node returns.
KeyOccupied == "Key occupied!"
LocalUpdated == "Local updated, Key occupied!"
DatabaseUpdated == "Database updated"
CouldntUpdate == "Couldn't update Global"
NoMapping == "Key-Value mapping doesn't exist"
GlobalNotFound == "Global: not found"
CacheHit == ""
UpdatedLocal == "Updated Local"
MappingsRemoved == "Mappings removed"
MissingGlobal == "Key missing from global!"
MissingLocal == "Key missing from local!"
MissingBoth == "Key missing from global and local!"

-----------------------------------------------------------------------------
(* State.                                                                   *)

VARIABLES
  db,       \* Global.db: the coordinator's key -> value map
  cluster,  \* Global.cluster: node id -> invalidation queue
  up,       \* the nodes Local::new has constructed
  cache,    \* Local.db of every node
  pc,       \* where the holder of the node's mutex stands
  op,       \* the operation the node is running
  ret,      \* the last operation the node finished and what it returned
  won,      \* history: per key, the writes that returned ok since its last delete
  sync,     \* history: per node and key, drain passes since the key's last removal
  rm,       \* history: per requester, the fan-out of its last remove
  seen,     \* history: what contains answered to the insert in progress
  call,     \* coordinator alone: the RPC each direct client has in flight
  resp,     \* coordinator alone: the last response sent
  cin,      \* framing alone: the key and value under test
  cst,      \* framing alone: how far the value has travelled
  kept,     \* history: per node, its inserts that returned ok and no drain has evicted
  held,     \* history, kept where .on: every entry the nodes' writes have put in the store
  pass,     \* history, kept where .on: per node, how the drain pass in progress started
  owed,     \* coordinator alone, history: per node id, the removed keys not yet handed out
  lost,     \* coordinator alone, history: per node id, the keys its last join discarded
  queues,   \* Global.queues: name -> queue of values
  qhist,    \* history: per queue name, what was enqueued and how many were handed out
  mutex,    \* locking alone: for every mutex of Global, the handler that holds it
  handler   \* locking alone: for every handler task, the lock operations it has left

queueVars == <<queues, qhist>>
lockVars == <<mutex, handler>>

EmptyMap == [x \in {} |-> EmptyBytes]
NoOp == [name |-> "none", key |-> EmptyBytes, value |-> EmptyBytes]
NoRet == [name |-> "none", key |-> EmptyBytes, msg |-> "none", val |-> EmptyBytes]
Result(o, m, v) == [name |-> o.name, key |-> o.key, msg |-> m, val |-> v]
NoRm == [key |-> EmptyBytes, targets |-> {}, fanned |-> {}, took |-> {}, missed |-> {}]
NotSeen == [ok |-> FALSE, value |-> EmptyBytes]
NoHeld == [on |-> FALSE, entries |-> {}]
NoPass == [on |-> FALSE, start |-> <<>>, base |-> EmptyMap, got |-> {}]

Idle(n) == n \in up /\ pc[n] = "idle"

SysInit ==
  /\ db = EmptyMap
  /\ cluster = EmptyMap
  /\ up = {}
  /\ cache = [n \in Nodes |-> EmptyMap]
  /\ pc = [n \in Nodes |-> "idle"]
  /\ op = [n \in Nodes |-> NoOp]
  /\ ret = [n \in Nodes |-> NoRet]
  /\ won = [k \in Keys |-> {}]
  /\ sync = [n \in Nodes |-> [k \in Keys |-> "none"]]
  /\ rm = [n \in Nodes |-> NoRm]
  /\ seen = [n \in Nodes |-> NotSeen]
  /\ kept = [n \in Nodes |-> {}]

\* Local::new: join the cluster, start with an empty cache.
New(n) ==
  /\ n \notin up
  /\ cluster' = Join(cluster, n)
  /\ up' = up \cup {n}
  /\ UNCHANGED <<db, cache, pc, op, ret, won, sync, rm, seen, kept, held, pass, call, resp, cin, cst, owed, lost, queueVars, lockVars>>

\* Local::insert up to the answer of contains (insert_single and
\* insert_file share the prologue).
InsertCall(n, k, v) ==
  /\ Idle(n)
  /\ LET o == [name |-> "insert", key |-> k, value |-> v]
     IN IF k \in DOMAIN cache[n]
          THEN /\ ret' = [ret EXCEPT ![n] = Result(o, KeyOccupied, EmptyBytes)]
               /\ UNCHANGED <<pc, op, seen>>
          ELSE /\ op' = [op EXCEPT ![n] = o]
               /\ ret' = [ret EXCEPT ![n] = NoRet]
               /\ seen' = [seen EXCEPT ![n] =
                    IF k \in DOMAIN db THEN [ok |-> TRUE, value |-> db[k]] ELSE NotSeen]
               /\ pc' = [pc EXCEPT ![n] =
                    IF Contains(db, k).ok
                      THEN IF RefreshUsesFile(Contains(db, k).size) THEN "get_file" ELSE "get_single"
                      ELSE IF InsertUsesSingle(v) THEN "push" ELSE "push_file"]
  /\ UNCHANGED <<db, cluster, up, cache, won, sync, rm, kept, held, pass, call, resp, cin, cst, owed, lost, queueVars, lockVars>>

\* Mutant: insert hands on what the read-through returned.
ReadThroughResultKept(o, m, v) == Result(o, m, v)

\* What get_single / get_file return to their caller on success: insert
\* discards the value and fails with "Local updated, Key occupied!".
ReadThroughResult(o, m, v) ==
  IF o.name = "insert" THEN Result(o, LocalUpdated, EmptyBytes) ELSE Result(o, m, v)

\* Local::get_single: pull, cache the answer.
GetSingle(n) ==
  /\ n \in up /\ pc[n] = "get_single"
  /\ LET key == op[n].key
         r == Pull(db, key)
     IN IF key \in DOMAIN cache[n]
          THEN /\ ret' = [ret EXCEPT ![n] = ReadThroughResult(op[n], CacheHit, cache[n][key])]
               /\ cache' = cache
          ELSE IF r.ok
            THEN /\ cache' = [cache EXCEPT ![n] = CachePut(cache[n], key, r.body)]
                 /\ ret' = [ret EXCEPT ![n] = ReadThroughResult(op[n], UpdatedLocal, r.body)]
            ELSE /\ cache' = cache
                 /\ ret' = [ret EXCEPT ![n] = Result(op[n], NoMapping, EmptyBytes)]
  /\ pc' = [pc EXCEPT ![n] = "idle"]
  /\ op' = [op EXCEPT ![n] = NoOp]
  /\ seen' = [seen EXCEPT ![n] = NotSeen]
  /\ UNCHANGED <<db, cluster, up, won, sync, rm, kept, held, pass, call, resp, cin, cst, owed, lost, queueVars, lockVars>>

\* Local::get_file up to the answer of pull_file: the handler returns the
\* stream at once, before the spawned task has looked at the map.
GetFileCall(n) ==
  /\ n \in up /\ pc[n] = "get_file"
  /\ IF op[n].key \in DOMAIN cache[n]
       THEN /\ ret' = [ret EXCEPT ![n] = ReadThroughResult(op[n], CacheHit, cache[n][op[n].key])]
            /\ pc' = [pc EXCEPT ![n] = "idle"]
            /\ op' = [op EXCEPT ![n] = NoOp]
            /\ seen' = [seen EXCEPT ![n] = NotSeen]
       ELSE /\ pc' = [pc EXCEPT ![n] = "get_file_task"]
            /\ UNCHANGED <<ret, op, seen>>
  /\ UNCHANGED <<db, cluster, up, cache, won, sync, rm, kept, held, pass, call, resp, cin, cst, owed, lost, queueVars, lockVars>>

\* The task spawned by pull_file reads the value and sends its frames; the
\* node appends them until the stream ends and caches the result.
GetFileTask(n) ==
  /\ n \in up /\ pc[n] = "get_file_task"
  /\ LET key == op[n].key
         value == GetFileValue(PullFileTask(db, key).frames)
     IN /\ cache' = [cache EXCEPT ![n] = CachePut(cache[n], key, value)]
        /\ ret' = [ret EXCEPT ![n] = ReadThroughResult(op[n], UpdatedLocal, value)]
  /\ pc' = [pc EXCEPT ![n] = "idle"]
  /\ op' = [op EXCEPT ![n] = NoOp]
  /\ seen' = [seen EXCEPT ![n] = NotSeen]
  /\ UNCHANGED <<db, cluster, up, won, sync, rm, kept, held, pass, call, resp, cin, cst, owed, lost, queueVars, lockVars>>

\* History kept when a push or push_file of node n for key succeeded.
Pushed(n, key, value) ==
  /\ won' = [won EXCEPT ![key] = @ \cup {<<n, value>>}]
  /\ sync' = [m \in Nodes |-> [sync[m] EXCEPT ![key] = "none"]]

\* Mutant: the node caches its value whatever the coordinator answered.
AfterWriteCachesAnyway(n, r) ==
  /\ db' = r.db
  /\ cache' = [cache EXCEPT ![n] = CachePut(cache[n], op[n].key, op[n].value)]
  /\ ret' = [ret EXCEPT ![n] =
       Result(op[n], IF r.ok THEN DatabaseUpdated ELSE CouldntUpdate, EmptyBytes)]
  /\ IF r.ok THEN Pushed(n, op[n].key, op[n].value) ELSE UNCHANGED <<won, sync>>
  /\ kept' = kept
  /\ pc' = [pc EXCEPT ![n] = "idle"]
  /\ op' = [op EXCEPT ![n] = NoOp]
  /\ held' = IF r.ok /\ held.on
               THEN [held EXCEPT !.entries = @ \cup {<<op[n].key, r.db[op[n].key]>>}]
               ELSE held
  /\ UNCHANGED <<cluster, up, rm, seen, pass, call, resp, cin, cst, owed, lost, queueVars, lockVars>>

\* insert_single / insert_file after the coordinator answered the write.
AfterWrite(n, r) ==
  /\ db' = r.db
  /\ IF r.ok
       THEN /\ cache' = [cache EXCEPT ![n] = CachePut(cache[n], op[n].key, op[n].value)]
            /\ ret' = [ret EXCEPT ![n] = Result(op[n], DatabaseUpdated, EmptyBytes)]
            /\ Pushed(n, op[n].key, op[n].value)
            /\ kept' = [kept EXCEPT ![n] = @ \cup {<<op[n].key, op[n].value>>}]
       ELSE /\ cache' = cache
            /\ ret' = [ret EXCEPT ![n] = Result(op[n], CouldntUpdate, EmptyBytes)]
            /\ UNCHANGED <<won, sync, kept>>
  /\ pc' = [pc EXCEPT ![n] = "idle"]
  /\ op' = [op EXCEPT ![n] = NoOp]
  /\ held' = IF r.ok /\ held.on
               THEN [held EXCEPT !.entries = @ \cup {<<op[n].key, r.db[op[n].key]>>}]
               ELSE held
  /\ UNCHANGED <<cluster, up, rm, seen, pass, call, resp, cin, cst, owed, lost, queueVars, lockVars>>

\* insert_single, the push and what follows it.
PushStep(n) ==
  /\ n \in up /\ pc[n] = "push"
  /\ AfterWrite(n, Push(db, op[n].key, op[n].value))

\* insert_file, the push_file and what follows it.
PushFileStep(n) ==
  /\ n \in up /\ pc[n] = "push_file"
  /\ AfterWrite(n, PushFile(db, InsertFileFrames(op[n].key, op[n].value)))

\* Local::get up to the answer of contains.
GetCall(n, k) ==
  /\ Idle(n)
  /\ LET o == [name |-> "get", key |-> k, value |-> EmptyBytes]
     IN IF k \in DOMAIN cache[n]
          THEN /\ ret' = [ret EXCEPT ![n] = Result(o, CacheHit, cache[n][k])]
               /\ UNCHANGED <<pc, op>>
          ELSE IF Contains(db, k).ok
            THEN /\ ret' = [ret EXCEPT ![n] = NoRet]
                 /\ op' = [op EXCEPT ![n] = o]
                 /\ pc' = [pc EXCEPT ![n] =
                      IF GetUsesSingle(Contains(db, k).size) THEN "get_single" ELSE "get_file"]
            ELSE /\ ret' = [ret EXCEPT ![n] = Result(o, GlobalNotFound, EmptyBytes)]
                 /\ UNCHANGED <<pc, op>>
  /\ UNCHANGED <<db, cluster, up, cache, won, sync, rm, seen, kept, held, pass, call, resp, cin, cst, owed, lost, queueVars, lockVars>>

\* The nodes whose queue grew by exactly key at its tail.
Fanned(cl, cl2, key) == {m \in DOMAIN cl : m \in DOMAIN cl2 /\ cl2[m] = Append(cl[m], key)}

\* Local::remove up to the end of the handler's loop over the cluster.
RemoveCall(n, k) ==
  /\ Idle(n)
  /\ \A m \in DOMAIN cluster : Len(cluster[m]) < MaxInval
  /\ op' = [op EXCEPT ![n] = [name |-> "remove", key |-> k, value |-> EmptyBytes]]
  /\ cluster' = RemoveFanout(cluster, k)
  /\ ret' = [ret EXCEPT ![n] = NoRet]
  /\ pc' = [pc EXCEPT ![n] = "rm_delete"]
  /\ rm' = [rm EXCEPT ![n] = [key |-> k, targets |-> DOMAIN cluster,
                              fanned |-> Fanned(cluster, cluster', k), took |-> {},
                              missed |-> {}]]
  /\ UNCHANGED <<db, up, cache, won, sync, seen, kept, held, pass, call, resp, cin, cst, owed, lost, queueVars, lockVars>>

\* Mutant: the result looks at the coordinator's answer only.
RemoveResultIgnoresLocal(globalOk, localHad) ==
  IF globalOk THEN MappingsRemoved ELSE MissingGlobal

\* Local::remove: "Key missing from {global, local}" or ok.
RemoveResult(globalOk, localHad) ==
  IF globalOk
    THEN IF localHad THEN MappingsRemoved ELSE MissingLocal
    ELSE IF localHad THEN MissingGlobal ELSE MissingBoth

\* Whether key is waiting in a queue.
InQueue(q, key) == \E i \in 1..Len(q) : q[i] = key

\* History frozen when the delete of a remove is done: the nodes registered
\* at its fan-out that neither hold its invalidation nor have consumed one.
RmDone(n, deleted) ==
  [key |-> EmptyBytes, targets |-> {}, fanned |-> {}, took |-> {},
   missed |-> IF deleted
                THEN {m \in rm[n].targets : ~InQueue(cluster[m], rm[n].key) /\ m \notin rm[n].took}
                ELSE {}]

\* The rest of the remove handler, and of Local::remove.
RemoveFinish(n) ==
  /\ n \in up /\ pc[n] = "rm_delete"
  /\ LET r == RemoveDelete(db, op[n].key)
     IN /\ db' = r.db
        /\ ret' = [ret EXCEPT ![n] =
             Result(op[n], RemoveResult(r.ok, op[n].key \in DOMAIN cache[n]), EmptyBytes)]
        /\ IF r.ok
             THEN /\ won' = [won EXCEPT ![op[n].key] = {}]
                  /\ sync' = [m \in Nodes |->
                       IF m \in rm[n].targets
                         THEN [sync[m] EXCEPT ![op[n].key] = "owed"] ELSE sync[m]]
             ELSE UNCHANGED <<won, sync>>
  /\ pc' = [pc EXCEPT ![n] = "idle"]
  /\ op' = [op EXCEPT ![n] = NoOp]
  /\ rm' = [rm EXCEPT ![n] = RmDone(n, RemoveDelete(db, op[n].key).ok)]
  /\ UNCHANGED <<cluster, up, cache, seen, kept, held, pass, call, resp, cin, cst, owed, lost, queueVars, lockVars>>

\* History of the drain passes: a pass that starts takes over the removals
\* that have returned; when it ends, the node has drained since each of them.
PassStarts(s) == [k \in Keys |-> IF s[k] = "owed" THEN "passing" ELSE s[k]]

PassEnds(s) == [k \in Keys |-> IF s[k] = "passing" THEN "settled" ELSE s[k]]

\* One turn of the loop of Local::update, run by the updater task when it
\* gets the node's mutex: evict the key update returned, stop on an error.
DrainStep(n) ==
  /\ n \in up /\ pc[n] \in {"idle", "drain"}
  /\ LET u == Update(cluster, n)
         s == IF pc[n] = "idle" THEN PassStarts(sync[n]) ELSE sync[n]
         p == IF pc[n] = "idle"
                THEN [pass[n] EXCEPT !.start = cluster[n], !.base = cache[n], !.got = {}]
                ELSE pass[n]
     IN /\ cluster' = u.cluster
        /\ IF u.ok
             THEN /\ cache' = [cache EXCEPT ![n] = CacheDel(cache[n], u.body)]
                  /\ pc' = [pc EXCEPT ![n] = "drain"]
                  /\ sync' = [sync EXCEPT ![n] = s]
                  /\ rm' = [r \in Nodes |->
                       IF pc[r] = "rm_delete" /\ rm[r].key = u.body THEN [rm[r] EXCEPT !.took = @ \cup {n}] ELSE rm[r]]
                  /\ kept' = [kept EXCEPT ![n] = {w \in @ : w[1] # u.body}]
                  /\ pass' = IF pass[n].on
                               THEN [pass EXCEPT ![n] = [p EXCEPT !.got = @ \cup {u.body}]]
                               ELSE pass
             ELSE /\ cache' = cache
                  /\ pc' = [pc EXCEPT ![n] = "idle"]
                  /\ sync' = [sync EXCEPT ![n] = PassEnds(s)]
                  /\ rm' = rm
                  /\ kept' = kept
                  /\ pass' = [pass EXCEPT ![n] = [NoPass EXCEPT !.on = pass[n].on]]
  /\ UNCHANGED <<db, up, op, ret, won, seen, held, call, resp, cin, cst, owed, lost, queueVars, lockVars>>

vars == <<db, cluster, up, cache, pc, op, ret, won, sync, rm, seen, kept, held, pass, call, resp, cin, cst,
          owed, lost, queues, qhist, mutex, handler>>

nodeVars == <<up, cache, pc, op, ret, sync, rm, seen, kept, held, pass>>

-----------------------------------------------------------------------------
(* The coordinator alone, called by direct RPC clients (global.rs).  Every  *)
(* handler is one step under its mutex, but remove (the cluster lock, then  *)
(* the db lock) and pull_file (the handler, then the task it spawned).      *)

RpcClients == {"c1", "c2"}

\* The mutexes of Global: db, the cluster map and the mutex around every
\* node's invalidation queue, the queues map and the mutex around a queue.
InvMutex(id) == IF id = "n1" THEN "inv_n1" ELSE "inv_n2"
Mutexes == {"db", "cluster", "queues", "queue_q"} \cup {InvMutex(id) : id \in Nodes}
\* Handler tasks running at once.
Handlers == {"h1", "h2", "h3"}
NoHandler == [rpc |-> "none", todo |-> <<>>]
Acq(m) == [op |-> "acq", m |-> m]
Rel(m) == [op |-> "rel", m |-> m]

\* The lock operations of the handlers, in program order.  A guard that is
\* a temporary lives to the end of its statement (for a match or a for
\* loop: to the end of the match or loop).
\* contains, pull and Global::insert (push): db only.
DbPlan == <<Acq("db"), Rel("db")>>

\* join: the cluster map for the insert.
JoinPlan == <<Acq("cluster"), Rel("cluster")>>

RECURSIVE FanoutPlan(_)
\* remove, body of the loop: lock a queue, push_back, unlock.
FanoutPlan(order) ==
  IF order = <<>> THEN <<>>
  ELSE <<Acq(InvMutex(Head(order))), Rel(InvMutex(Head(order)))>> \o FanoutPlan(Tail(order))

\* remove: the cluster map for the whole loop, then db for the delete.
RemovePlan(order) ==
  <<Acq("cluster")>> \o FanoutPlan(order) \o <<Rel("cluster"), Acq("db"), Rel("db")>>

\* Mutant: update locks the node's queue before the cluster map.
UpdatePlanInnerFirst(id) ==
  <<Acq(InvMutex(id)), Acq("cluster"), Rel("cluster"), Rel(InvMutex(id))>>

\* update: the cluster map, then the caller's queue, both to the end of the
\* match.
UpdatePlan(id) ==
  <<Acq("cluster"), Acq(InvMutex(id)), Rel(InvMutex(id)), Rel("cluster")>>

\* en_queue and de_queue: the queues map to the end, the queue's own mutex
\* inside it when the queue exists.
EnQueuePlan(exists) ==
  IF exists THEN <<Acq("queues"), Acq("queue_q"), Rel("queue_q"), Rel("queues")>>
            ELSE <<Acq("queues"), Rel("queues")>>

DeQueuePlan(exists) ==
  IF exists THEN <<Acq("queues"), Acq("queue_q"), Rel("queue_q"), Rel("queues")>>
            ELSE <<Acq("queues"), Rel("queues")>>

\* The orders in which the loop of remove can meet the registered nodes
\* (none, one or both registered; a HashMap iterates in any order).
FanoutOrders == {<<>>, <<"n1">>, <<"n2">>, <<"n1", "n2">>, <<"n2", "n1">>}

HandlerPlans ==
  {[rpc |-> r, todo |-> DbPlan] : r \in {"contains", "push", "pull"}}
    \cup {[rpc |-> "join", todo |-> JoinPlan]}
    \cup {[rpc |-> "remove", todo |-> RemovePlan(o)] : o \in FanoutOrders}
    \cup {[rpc |-> "update", todo |-> UpdatePlan(id)] : id \in Nodes}
    \cup {[rpc |-> "en_queue", todo |-> EnQueuePlan(e)] : e \in BOOLEAN}
    \cup {[rpc |-> "de_queue", todo |-> DeQueuePlan(e)] : e \in BOOLEAN}

\* Names and values of the named queues; a queue is handed at most MaxEnq
\* values in a run.
MaxEnq == 3
QueueNames == {<<1>>, <<2>>}
QueueValues == {Val(4, 1), Val(5, 1)}
NoHist == [enq |-> <<>>, deq |-> 0, out |-> <<>>]

\* The slices of v a sender that emits the tail hands to push_file.
WholeSlices(v) ==
  [i \in 1..((Len(v) + MAX_BYTE_SIZE - 1) \div MAX_BYTE_SIZE) |->
     SubSeq(v, (i - 1) * MAX_BYTE_SIZE + 1,
            IF i * MAX_BYTE_SIZE < Len(v) THEN i * MAX_BYTE_SIZE ELSE Len(v))]

\* What direct clients send: a short value, one of a frame and a tail, and
\* one of exactly a frame.
RpcValues == {Val(1, 1), Val(2, MAX_BYTE_SIZE + 1), Val(3, MAX_BYTE_SIZE)}

RpcStreams == {<<k>> \o WholeSlices(v) : k \in Keys, v \in RpcValues}

\* snap is history: what the store held for the key when pull_file answered.
NoCall == [rpc |-> "none", key |-> EmptyBytes, snap |-> NotSeen]
NoResp == [rpc |-> "none", id |-> "", key |-> EmptyBytes, status |-> "none", body |-> EmptyBytes]
Resp(r, i, k, s, b) == [rpc |-> r, id |-> i, key |-> k, status |-> s, body |-> b]

RpcInit ==
  /\ call = [c \in RpcClients |-> NoCall]
  /\ resp = NoResp
  /\ owed = [x \in {} |-> <<>>]
  /\ lost = [id \in Nodes |-> 0]
  /\ queues = [x \in {} |-> <<>>]
  /\ qhist = [q \in QueueNames |-> NoHist]
  /\ mutex = [m \in Mutexes |-> "free"]
  /\ handler = [h \in Handlers |-> NoHandler]

Free(c) == call[c] = NoCall

RpcJoin(c, id) ==
  /\ Free(c)
  /\ cluster' = Join(cluster, id)
  /\ resp' = Resp("join", id, EmptyBytes, "ok", EmptyBytes)
  /\ owed' = [x \in DOMAIN owed \cup {id} |-> IF x = id THEN <<>> ELSE owed[x]]
  /\ lost' = [lost EXCEPT ![id] = IF id \in DOMAIN cluster THEN Len(cluster[id]) ELSE 0]
  /\ UNCHANGED <<db, call, nodeVars, won, cin, cst, queueVars, lockVars>>

RpcPush(c, k, v) ==
  /\ Free(c)
  /\ db' = Push(db, k, v).db
  /\ resp' = Resp("push", "", k, IF Push(db, k, v).ok THEN "ok" ELSE "already-exists", EmptyBytes)
  /\ won' = IF Push(db, k, v).ok THEN [won EXCEPT ![k] = @ \cup {<<"push", v>>}] ELSE won
  /\ UNCHANGED <<cluster, call, nodeVars, cin, cst, owed, lost, queueVars, lockVars>>

RpcPushFile(c, frames) ==
  /\ Free(c)
  /\ db' = PushFile(db, frames).db
  /\ resp' = Resp("push_file", "", PushFileKey(frames),
                  IF PushFile(db, frames).ok THEN "ok" ELSE "already-exists", EmptyBytes)
  /\ won' = IF PushFile(db, frames).ok /\ frames # <<>>
              THEN [won EXCEPT ![Head(frames)] = @ \cup {<<"push_file", Concat(Tail(frames))>>}]
              ELSE won
  /\ UNCHANGED <<cluster, call, nodeVars, cin, cst, owed, lost, queueVars, lockVars>>

\* push_file whose stream breaks (error or cancellation) after some frames.
RpcPushFileAbort(c, received) ==
  /\ Free(c)
  /\ db' = PushFileAborted(db, received).db
  /\ resp' = Resp("push_file", "", PushFileKey(received),
                  IF PushFileAborted(db, received).ok THEN "ok" ELSE "stream-error", EmptyBytes)
  /\ UNCHANGED <<cluster, call, nodeVars, won, cin, cst, owed, lost, queueVars, lockVars>>

RpcPull(c, k) ==
  /\ Free(c)
  /\ resp' = Resp("pull", "", k, IF Pull(db, k).ok THEN "ok" ELSE "not-found", Pull(db, k).body)
  /\ UNCHANGED <<db, cluster, call, nodeVars, won, cin, cst, owed, lost, queueVars, lockVars>>

\* pull_file: Ok(stream) at once, whatever the map holds.
RpcPullFileCall(c, k) ==
  /\ Free(c)
  /\ call' = [call EXCEPT ![c] =
       [rpc |-> "pull_file", key |-> k,
        snap |-> IF k \in DOMAIN db THEN [ok |-> TRUE, value |-> db[k]] ELSE NotSeen]]
  /\ resp' = Resp("pull_file", "", k, "ok", EmptyBytes)
  /\ UNCHANGED <<db, cluster, nodeVars, won, cin, cst, owed, lost, queueVars, lockVars>>

\* The spawned task: the frames it sends, put together in arrival order;
\* the stream then ends, also when the task panicked.
RpcPullFileTask(c) ==
  /\ call[c].rpc = "pull_file"
  /\ call' = [call EXCEPT ![c] = NoCall]
  /\ resp' = Resp("pull_file_stream", "", call[c].key, "end-of-stream",
                  Concat(PullFileTask(db, call[c].key).frames))
  /\ UNCHANGED <<db, cluster, nodeVars, won, cin, cst, owed, lost, queueVars, lockVars>>

RpcRemoveFanout(c, k) ==
  /\ Free(c)
  /\ \A m \in DOMAIN cluster : Len(cluster[m]) < MaxInval
  /\ cluster' = RemoveFanout(cluster, k)
  /\ call' = [call EXCEPT ![c] = [rpc |-> "remove", key |-> k, snap |-> NotSeen]]
  /\ owed' = [x \in DOMAIN owed |-> owed[x] \o <<k>>]
  /\ UNCHANGED <<db, resp, nodeVars, won, cin, cst, lost, queueVars, lockVars>>

RpcRemoveDelete(c) ==
  /\ call[c].rpc = "remove"
  /\ db' = RemoveDelete(db, call[c].key).db
  /\ call' = [call EXCEPT ![c] = NoCall]
  /\ resp' = Resp("remove", "", call[c].key,
                  IF RemoveDelete(db, call[c].key).ok THEN "ok" ELSE "not-found", EmptyBytes)
  /\ won' = IF RemoveDelete(db, call[c].key).ok THEN [won EXCEPT ![call[c].key] = {}] ELSE won
  /\ UNCHANGED <<cluster, nodeVars, cin, cst, owed, lost, queueVars, lockVars>>

\* update by a node that has joined.
RpcUpdate(c, id) ==
  /\ Free(c)
  /\ id \in DOMAIN cluster
  /\ cluster' = Update(cluster, id).cluster
  /\ resp' = Resp("update", id, EmptyBytes,
                  IF Update(cluster, id).ok THEN "ok" ELSE "not-found", Update(cluster, id).body)
  /\ owed' = IF owed[id] = <<>> THEN owed ELSE [owed EXCEPT ![id] = Tail(@)]
  /\ UNCHANGED <<db, call, nodeVars, won, cin, cst, lost, queueVars, lockVars>>

\* update by an id that is not registered.
RpcUpdateUnjoined(c, id) ==
  /\ Free(c)
  /\ id \notin DOMAIN cluster
  /\ cluster' = UpdateUnjoined(cluster, id).cluster
  /\ resp' = Resp("update", id, EmptyBytes,
                  IF UpdateUnjoined(cluster, id).panic THEN "panic" ELSE "unknown-node", EmptyBytes)
  /\ UNCHANGED <<db, call, nodeVars, won, cin, cst, owed, lost, queueVars, lockVars>>

RpcEnQueue(c, name, value) ==
  /\ Free(c)
  /\ Len(qhist[name].enq) < MaxEnq
  /\ queues' = EnQueue(queues, name, value)
  /\ resp' = Resp("en_queue", "", name, "ok", EmptyBytes)
  /\ qhist' = [qhist EXCEPT ![name].enq = Append(@, value)]
  /\ UNCHANGED <<db, cluster, call, nodeVars, won, cin, cst, owed, lost, lockVars>>

RpcDeQueue(c, name) ==
  /\ Free(c)
  /\ queues' = DeQueue(queues, name).queues
  /\ resp' = Resp("de_queue", "", name,
                  IF DeQueue(queues, name).ok THEN "ok" ELSE "not-found", DeQueue(queues, name).body)
  /\ qhist' = IF DeQueue(queues, name).ok
                THEN [qhist EXCEPT ![name].deq = @ + 1,
                                   ![name].out = Append(@, DeQueue(queues, name).body)]
                ELSE qhist
  /\ UNCHANGED <<db, cluster, call, nodeVars, won, cin, cst, owed, lost, lockVars>>

\* Every variable but the locks.
dataVars == <<db, cluster, nodeVars, won, call, resp, cin, cst, owed, lost, queueVars>>

\* A request arrives and its handler task starts.
HandlerStart(h, plan) ==
  /\ handler[h] = NoHandler
  /\ handler' = [handler EXCEPT ![h] = plan]
  /\ UNCHANGED <<mutex, dataVars>>

\* lock().await returns: the mutex was free and the handler holds it now.
HandlerAcquire(h) ==
  /\ handler[h].todo # <<>>
  /\ Head(handler[h].todo).op = "acq"
  /\ mutex[Head(handler[h].todo).m] = "free"
  /\ mutex' = [mutex EXCEPT ![Head(handler[h].todo).m] = h]
  /\ handler' = [handler EXCEPT ![h].todo = Tail(@)]
  /\ UNCHANGED dataVars

\* A guard is dropped; after the last one the handler returns.
HandlerRelease(h) ==
  /\ handler[h].todo # <<>>
  /\ Head(handler[h].todo).op = "rel"
  /\ mutex' = [mutex EXCEPT ![Head(handler[h].todo).m] = "free"]
  /\ handler' = [handler EXCEPT ![h] =
       IF Tail(handler[h].todo) = <<>> THEN NoHandler ELSE [@ EXCEPT !.todo = Tail(@)]]
  /\ UNCHANGED dataVars

-----------------------------------------------------------------------------
(* The framing alone: the path of one value from Local::insert to the      *)
(* frames insert_file emits.                                                *)

\* Longest value of the framing runs.
MaxLen == 5
Bytes == {1, 2}
RECURSIVE ByteStrings(_)
ByteStrings(n) ==
  IF n = 0 THEN {<<>>} ELSE ByteStrings(n - 1) \cup {Append(b, x) : b \in ByteStrings(n - 1), x \in Bytes}

NoCst == [stage |-> "start", route |-> "none", frames |-> <<>>]

CodecChoose ==
  /\ cst.stage = "start"
  /\ cst' = [cst EXCEPT !.stage = "routed",
                        !.route = IF InsertUsesSingle(cin.value) THEN "push" ELSE "push_file"]
  /\ UNCHANGED <<db, cluster, nodeVars, won, call, resp, cin, owed, lost, queueVars, lockVars>>

CodecEmit ==
  /\ cst.stage = "routed" /\ cst.route = "push_file"
  /\ cst' = [cst EXCEPT !.stage = "emitted", !.frames = InsertFileFrames(cin.key, cin.value)]
  /\ UNCHANGED <<db, cluster, nodeVars, won, call, resp, cin, owed, lost, queueVars, lockVars>>

-----------------------------------------------------------------------------
(* Specifications.                                                          *)

Init ==
  /\ SysInit
  /\ held = NoHeld
  /\ pass = [n \in Nodes |-> NoPass]
  /\ RpcInit
  /\ cin = [key |-> EmptyBytes, value |-> EmptyBytes]
  /\ cst = NoCst

\* The system with its clients' keys drawn from K and values from V.
SysNext(K, V) ==
  \/ \E n \in Nodes : New(n)
  \/ \E n \in Nodes, k \in K, v \in V : InsertCall(n, k, v)
  \/ \E n \in Nodes : GetSingle(n)
  \/ \E n \in Nodes : GetFileCall(n)
  \/ \E n \in Nodes : GetFileTask(n)
  \/ \E n \in Nodes : PushStep(n)
  \/ \E n \in Nodes : PushFileStep(n)
  \/ \E n \in Nodes, k \in K : GetCall(n, k)
  \/ \E n \in Nodes, k \in K : RemoveCall(n, k)
  \/ \E n \in Nodes : RemoveFinish(n)
  \/ \E n \in Nodes : DrainStep(n)

Next == SysNext(OneKey, Values)

\* Nodes and coordinator, one key, values of every size.
Spec == Init /\ [][Next]_vars

\* Nodes and coordinator as in Spec, with the history of the store's
\* entries kept.
HeldInit ==
  /\ SysInit
  /\ held = [on |-> TRUE, entries |-> {}]
  /\ pass = [n \in Nodes |-> NoPass]
  /\ RpcInit
  /\ cin = [key |-> EmptyBytes, value |-> EmptyBytes]
  /\ cst = NoCst

HeldNext == SysNext(OneKey, {Val(1, 1), Val(3, MaxFrames * MAX_BYTE_SIZE + 1)})

SpecHeld == HeldInit /\ [][HeldNext]_vars

DrainInit ==
  /\ SysInit
  /\ held = NoHeld
  /\ pass = [n \in Nodes |-> [NoPass EXCEPT !.on = TRUE]]
  /\ RpcInit
  /\ cin = [key |-> EmptyBytes, value |-> EmptyBytes]
  /\ cst = NoCst

DrainNext ==
  \/ \E n \in Nodes : New(n)
  \/ \E n \in Nodes, k \in OneKey : InsertCall(n, k, Val(1, 1))
  \/ \E n \in Nodes : GetSingle(n)
  \/ \E n \in Nodes : PushStep(n)
  \/ \E n \in Nodes, k \in OneKey : RemoveCall(n, k)
  \/ \E n \in Nodes : RemoveFinish(n)
  \/ \E n \in Nodes : DrainStep(n)

\* Nodes and coordinator, one key, one short value, the history of the
\* drain passes kept; the updater task of a node gets the node's mutex when
\* it stays free, and a pass in progress goes on (every update RPC is
\* answered).
SpecDrain == DrainInit /\ [][DrainNext]_vars /\ \A n \in Nodes : WF_vars(DrainStep(n))

LockNext ==
  \/ \E h \in Handlers, plan \in HandlerPlans : HandlerStart(h, plan)
  \/ \E h \in Handlers : HandlerAcquire(h)
  \/ \E h \in Handlers : HandlerRelease(h)

\* The coordinator's locking alone: up to three handlers of any kind at
\* once.
SpecLocks == Init /\ [][LockNext]_vars

StoreNext ==
  \/ \E c \in RpcClients, k \in Keys, v \in RpcValues : RpcPush(c, k, v)
  \/ \E c \in RpcClients, f \in RpcStreams \cup {<<>>} : RpcPushFile(c, f)
  \/ \E c \in RpcClients, f \in RpcStreams :
       \E i \in 0..Len(f) : RpcPushFileAbort(c, SubSeq(f, 1, i))
  \/ \E c \in RpcClients, k \in Keys : RpcPull(c, k)
  \/ \E c \in RpcClients, k \in Keys : RpcPullFileCall(c, k)
  \/ \E c \in RpcClients : RpcPullFileTask(c)
  \/ \E c \in RpcClients, k \in Keys : RpcRemoveFanout(c, k)
  \/ \E c \in RpcClients : RpcRemoveDelete(c)

\* The coordinator alone, its store: writes, reads and removes of both keys
\* by direct clients, no node registered.
SpecStore == Init /\ [][StoreNext]_vars

ClusterNext ==
  \/ \E c \in RpcClients, id \in Nodes : RpcJoin(c, id)
  \/ \E c \in RpcClients, k \in Keys : RpcPush(c, k, Val(1, 1))
  \/ \E c \in RpcClients, k \in Keys : RpcRemoveFanout(c, k)
  \/ \E c \in RpcClients : RpcRemoveDelete(c)
  \/ \E c \in RpcClients, id \in Nodes : RpcUpdate(c, id)
  \/ \E c \in RpcClients, id \in Nodes : RpcUpdateUnjoined(c, id)

\* The coordinator alone, its invalidation queues: joins, removes and
\* updates by direct clients, both keys, one short value.
SpecCluster == Init /\ [][ClusterNext]_vars

JoinNext ==
  \/ \E c \in RpcClients, id \in Nodes : RpcJoin(c, id)
  \/ \E c \in RpcClients : RpcPush(c, k1, Val(1, 1))
  \/ \E c \in RpcClients, k \in Keys : RpcRemoveFanout(c, k)
  \/ \E c \in RpcClients : RpcRemoveDelete(c)
  \/ \E c \in RpcClients : RpcEnQueue(c, <<1>>, Val(4, 1))

\* The coordinator alone: joins and re-joins while removes fill the
\* invalidation queues, next to a stored key and a named queue.
SpecJoin == Init /\ [][JoinNext]_vars

QueueNext ==
  \/ \E c \in RpcClients, q \in QueueNames, v \in QueueValues : RpcEnQueue(c, q, v)
  \/ \E c \in RpcClients, q \in QueueNames : RpcDeQueue(c, q)

\* The coordinator alone, its named queues.
SpecQueue == Init /\ [][QueueNext]_vars

CodecInit ==
  /\ SysInit
  /\ held = NoHeld
  /\ pass = [n \in Nodes |-> NoPass]
  /\ RpcInit
  /\ cin \in [key : Keys, value : ByteStrings(MaxLen)]
  /\ cst = NoCst

CodecNext ==
  \/ CodecChoose
  \/ CodecEmit

\* The framing alone, every value up to MaxLen bytes.
SpecCodec == CodecInit /\ [][CodecNext]_vars

-----------------------------------------------------------------------------
(* Claims.                                                                  *)

\* What a write of (k, v) must do to the store and answer.
WriteOnlyWhenAbsent(k, v) ==
  IF k \in DOMAIN db
    THEN resp'.status = "already-exists" /\ db' = db
    ELSE /\ resp'.status = "ok"
         /\ DOMAIN db' = DOMAIN db \cup {k}
         /\ db'[k] = v
         /\ \A x \in DOMAIN db : db'[x] = db[x]

C1_Step ==
  /\ \A c \in RpcClients, k \in Keys, v \in RpcValues :
       resp'.rpc = "push" /\ RpcPush(c, k, v) => WriteOnlyWhenAbsent(k, v)
  /\ \A c \in RpcClients, f \in RpcStreams :
       resp'.rpc = "push_file" /\ RpcPushFile(c, f) => WriteOnlyWhenAbsent(Head(f), Concat(Tail(f)))
  /\ \A c \in RpcClients, k \in Keys :
       resp'.rpc = "pull" /\ RpcPull(c, k) /\ k \in DOMAIN db =>
         resp'.status = "ok" /\ resp'.body = db[k]

C1_FirstWins ==
  \A k \in Keys :
    /\ Cardinality(won[k]) <= 1
    /\ (k \in DOMAIN db) = (won[k] # {})
    /\ \A w \in won[k] : db[k] = w[2]

C2_AtMostOneOwner ==
  \A k \in Keys :
    /\ Cardinality(won[k]) <= 1
    /\ \A w \in won[k] : k \in DOMAIN db /\ db[k] = w[2]

C3_Step ==
  /\ \A c \in RpcClients, k \in Keys :
       call'[c].rpc = "remove" /\ RpcRemoveFanout(c, k) =>
         /\ DOMAIN cluster' = DOMAIN cluster
         /\ \A m \in DOMAIN cluster :
              /\ Len(cluster'[m]) = Len(cluster[m]) + 1
              /\ SubSeq(cluster'[m], 1, Len(cluster[m])) = cluster[m]
              /\ cluster'[m][Len(cluster'[m])] = k
         /\ db' = db
  /\ \A c \in RpcClients :
       call[c].rpc = "remove" /\ RpcRemoveDelete(c) /\ resp'.status = "ok" =>
         /\ call[c].key \in DOMAIN db
         /\ DOMAIN db' = DOMAIN db \ {call[c].key}
         /\ \A x \in DOMAIN db' : db'[x] = db[x]
         /\ cluster' = cluster

\* C3: a remove that succeeds has deleted k from the store and left every
\* other entry as it was, and its fan-out appended k once, at the tail, to
\* the queue of every node registered when the fan-out ran.
C3_RemoveFansOutAndDeletes == [][C3_Step]_vars

\* C3 witness: a remove answered ok, the other key is still stored, and the
\* key is the last entry of both registered nodes' queues.
C3_Witness ==
  /\ resp.rpc = "remove" /\ resp.status = "ok"
  /\ resp.key \notin DOMAIN db
  /\ DOMAIN db # {}
  /\ DOMAIN cluster = Nodes
  /\ \A m \in Nodes : cluster[m] # <<>> /\ cluster[m][Len(cluster[m])] = resp.key

\* C4: once a remove of k has returned ok and a node that was registered
\* when the remove started has since completed a drain pass (k not written
\* again), that node's cache does not hold k.
C4_EventualInvalidation ==
  \A n \in Nodes, k \in Keys : sync[n][k] = "settled" => k \notin DOMAIN cache[n]

\* C5: while a remove stands between its two effects, and when it deletes,
\* k has been appended to the queue of every node registered when the
\* remove started, and each of these nodes either still has k waiting in
\* its queue or has consumed it.
C5_FanoutBeforeDelete ==
  \A r \in Nodes :
    /\ pc[r] = "rm_delete" =>
         /\ rm[r].targets \subseteq rm[r].fanned
         /\ \A m \in rm[r].targets : InQueue(cluster[m], rm[r].key) \/ m \in rm[r].took
    /\ rm[r].missed = {}

\* C5 witness: a remove has deleted the key, the other node sees it absent
\* from the store and has the invalidation waiting.
C5_Witness ==
  \E r \in Nodes, m \in Nodes :
    /\ r # m /\ m \in up
    /\ ret[r].name = "remove" /\ ret[r].msg \in {MappingsRemoved, MissingLocal}
    /\ ret[r].key \notin DOMAIN db
    /\ ret[r].key \in DOMAIN cache[m]
    /\ InQueue(cluster[m], ret[r].key)

C6_Step ==
  /\ \A c \in RpcClients, k \in Keys :
       call'[c].rpc = "remove" /\ RpcRemoveFanout(c, k) /\ k \notin DOMAIN db =>
         \A m \in DOMAIN cluster : cluster'[m] = Append(cluster[m], k)
  /\ \A c \in RpcClients :
       call[c].rpc = "remove" /\ RpcRemoveDelete(c) /\ call[c].key \notin DOMAIN db =>
         /\ resp'.status = "not-found"
         /\ db' = db
         /\ cluster' = cluster

C7_RoundTrip ==
  [][\A c \in RpcClients :
       call[c].rpc = "pull_file" /\ RpcPullFileTask(c) =>
         \A w \in won[call[c].key] : w[1] = "push_file" => resp'.body = w[2]]_vars

\* Frames a value of n bytes needs.
FramesNeeded(n) == (n + MAX_BYTE_SIZE - 1) \div MAX_BYTE_SIZE

\* C8: for a value longer than a frame the node emits the key, then
\* ceil(|v| / FRAME_MAX) value frames that put together are the value.
C8_EmitsEveryByte ==
  cst.stage = "emitted" /\ Len(cin.value) > MAX_BYTE_SIZE =>
    /\ Head(cst.frames) = cin.key
    /\ Len(cst.frames) = 1 + FramesNeeded(Len(cin.value))
    /\ Concat(Tail(cst.frames)) = cin.value

\* C9: a value goes by push when |v| <= FRAME_MAX and by push_file
\* otherwise.
C9_ChunkingDecision ==
  cst.stage # "start" => ((cst.route = "push") = (Len(cin.value) <= MAX_BYTE_SIZE))

C10_Step ==
  \A n \in Nodes :
    /\ \A k \in OneKey, v \in Values :
         InsertCall(n, k, v) /\ k \notin DOMAIN cache[n] /\ k \in DOMAIN db =>
           pc'[n] \in {"get_single", "get_file"} /\ db' = db
    /\ (GetSingle(n) \/ GetFileCall(n) \/ GetFileTask(n)) /\ op[n].name = "insert" =>
         /\ db' = db
         /\ pc'[n] \in {"idle", "get_file_task"}
         /\ pc'[n] = "idle" /\ seen[n].ok /\ Pull(db, op[n].key) = [ok |-> TRUE, body |-> seen[n].value] =>
              /\ ret'[n].msg = LocalUpdated
              /\ op[n].key \in DOMAIN cache'[n]
              /\ cache'[n][op[n].key] = seen[n].value

\* C10: an insert of a key the node does not cache and the store maps to v1
\* reads through instead of writing: it issues no push, leaves the store as
\* it is, fails with "Local updated, Key occupied!" and leaves (k, v1) in
\* the node's cache.
C10_OccupiedRefreshes == [][C10_Step]_vars

\* C10 witness: a node's insert failed with "Local updated, Key occupied!"
\* and its cache holds the value another node wrote, here one of more than
\* a frame.
C10_Witness ==
  \E n \in Nodes, m \in Nodes :
    /\ n # m
    /\ ret[n].name = "insert" /\ ret[n].msg = LocalUpdated
    /\ ret[n].key \in DOMAIN db /\ ret[n].key \in DOMAIN cache[n]
    /\ cache[n][ret[n].key] = db[ret[n].key]
    /\ Len(db[ret[n].key]) > MAX_BYTE_SIZE
    /\ \E w \in won[ret[n].key] : w[1] = m

C11_Step ==
  \A n \in Nodes, k \in OneKey :
    kept[n] # {} /\ GetCall(n, k) =>
      \A w \in kept[n] :
        w[1] = k =>
          /\ ret'[n] = [name |-> "get", key |-> k, msg |-> CacheHit, val |-> w[2]]
          /\ pc' = pc
          /\ <<db, cluster>>' = <<db, cluster>>

\* C11: after a node's insert(k, v) returned ok and as long as no drain of
\* that node has evicted k, a get(k) on the node returns exactly v, as a
\* cache hit: it completes at once and the coordinator is not called (the
\* node does not wait for an answer, store and queues are untouched).
C11_InsertThenGet == [][C11_Step]_vars

\* C11 witness: a get was served from the cache with the value the node
\* inserted, more than two frames long, while the store holds another value
\* for the key or none.
C11_Witness ==
  \E n \in Nodes :
    /\ ret[n].name = "get" /\ ret[n].msg = CacheHit
    /\ <<ret[n].key, ret[n].val>> \in kept[n]
    /\ Len(ret[n].val) > MaxFrames * MAX_BYTE_SIZE
    /\ ret[n].key \in DOMAIN db => db[ret[n].key] # ret[n].val

C12_Step ==
  \A n \in Nodes :
    /\ \A k \in OneKey : pc'[n] = "rm_delete" /\ RemoveCall(n, k) => cache' = cache
    /\ pc[n] = "rm_delete" /\ RemoveFinish(n) =>
         LET global == op[n].key \in DOMAIN db
             local == op[n].key \in DOMAIN cache[n]
         IN /\ cache' = cache
            /\ ret'[n].name = "remove" /\ ret'[n].key = op[n].key
            /\ global => op[n].key \notin DOMAIN db'
            /\ ret'[n].msg = IF global /\ local THEN "Mappings removed"
                             ELSE IF global THEN "Key missing from local!"
                             ELSE IF local THEN "Key missing from global!"
                             ELSE "Key missing from global and local!"

C13_Step ==
  \A n \in Nodes :
    pc[n] \in {"push", "push_file"} /\ (PushStep(n) \/ PushFileStep(n)) =>
      IF op[n].key \in DOMAIN db
        THEN /\ ret'[n] = [name |-> "insert", key |-> op[n].key,
                           msg |-> "Couldn't update Global", val |-> EmptyBytes]
             /\ cache' = cache
             /\ op[n].key \notin DOMAIN cache'[n]
             /\ db' = db
        ELSE /\ ret'[n].msg = "Database updated"
             /\ op[n].key \in DOMAIN db'
             /\ op[n].key \in DOMAIN cache'[n]

\* C13: when the coordinator turns down the push or push_file of a node's
\* insert (the key got stored after the node's contains), the insert fails
\* with "Couldn't update Global", the node's cache is unchanged and does
\* not hold the key, and the store is unchanged; the insert puts the key
\* in the cache only in the step in which the coordinator accepted it.
C13_InsertErrorPath == [][C13_Step]_vars

\* C13 witness: an insert failed with "Couldn't update Global" because the
\* other node's write got in first; the loser's cache is empty.
C13_Witness ==
  \E n \in Nodes, m \in Nodes :
    /\ n # m
    /\ ret[n].name = "insert" /\ ret[n].msg = CouldntUpdate
    /\ ret[n].key \in DOMAIN db
    /\ \E w \in won[ret[n].key] : w[1] = m
    /\ cache[n] = EmptyMap
    /\ ret[n].key \in DOMAIN cache[m]

\* What the named queue must hold: the enqueued values not yet handed out.
C14_Pending(q) == SubSeq(qhist[q].enq, qhist[q].deq + 1, Len(qhist[q].enq))

C14_Holds ==
  \A q \in QueueNames :
    /\ qhist[q].deq <= Len(qhist[q].enq)
    /\ IF qhist[q].enq = <<>> THEN q \notin DOMAIN queues
                              ELSE q \in DOMAIN queues /\ queues[q] = C14_Pending(q)

C14_Step ==
  \A c \in RpcClients, q \in QueueNames :
    /\ resp'.rpc = "de_queue" /\ RpcDeQueue(c, q) =>
         IF C14_Pending(q) = <<>>
           THEN resp'.status = "not-found" /\ queues' = queues
           ELSE /\ resp'.status = "ok"
                /\ resp'.body = qhist[q].enq[qhist[q].deq + 1]
                /\ \A x \in DOMAIN queues : x # q => x \in DOMAIN queues' /\ queues'[x] = queues[x]
    /\ \A v \in QueueValues :
         resp'.rpc = "en_queue" /\ RpcEnQueue(c, q, v) =>
           /\ resp'.status = "ok"
           /\ \A x \in DOMAIN queues : x # q => x \in DOMAIN queues' /\ queues'[x] = queues[x]

\* C14: the named queues are FIFO.  en_queue(q, v) answers ok and appends v
\* to q, creating it when absent; the i-th successful de_queue(q) returns
\* the i-th value ever enqueued on q, and q holds exactly the enqueued
\* values not yet returned, in order; de_queue on an empty or never created
\* queue answers not-found and changes nothing; no call touches another
\* queue.
C14_NamedQueuesFifo == []C14_Holds /\ [][C14_Step]_vars

\* C14 witness: two different values were enqueued on a queue, both came
\* out, and a third de_queue answered not-found.
C14_Witness ==
  /\ resp.rpc = "de_queue" /\ resp.status = "not-found"
  /\ Len(qhist[resp.key].enq) = 2
  /\ qhist[resp.key].enq[1] # qhist[resp.key].enq[2]
  /\ qhist[resp.key].deq = 2
  /\ queues[resp.key] = <<>>

C15_Holds ==
  /\ DOMAIN cluster = DOMAIN owed
  /\ \A id \in DOMAIN owed : cluster[id] = owed[id]

C15_Step ==
  \A c \in RpcClients, id \in Nodes :
    resp'.rpc = "update" /\ RpcUpdate(c, id) =>
      /\ IF owed[id] = <<>>
           THEN resp'.status = "not-found" /\ cluster' = cluster
           ELSE resp'.status = "ok" /\ resp'.body = Head(owed[id])
      /\ DOMAIN cluster' = DOMAIN cluster
      /\ \A m \in DOMAIN cluster : m # id => cluster'[m] = cluster[m]
      /\ db' = db

\* C15: for a registered id, the successful update(id) calls return the
\* keys the removes appended to the id's sequence since its last join, in
\* the order they were appended and each once (the sequence is at every
\* moment the appended keys not yet returned); update(id) answers
\* not-found when none is left, and touches neither the sequence of
\* another node nor the store.
C15_InvalidationFifo == []C15_Holds /\ [][C15_Step]_vars

\* C15 witness: removes of two different keys reached both nodes; update
\* has returned the first of them to one node and the second still waits
\* there, the other node's sequence holds both and a key is stored.
C15_Witness ==
  \E m \in Nodes :
    /\ resp.rpc = "update" /\ resp.status = "ok"
    /\ DOMAIN cluster = Nodes /\ m # resp.id
    /\ cluster[resp.id] # <<>>
    /\ Head(cluster[resp.id]) # resp.body
    /\ cluster[m] = <<resp.body>> \o cluster[resp.id]
    /\ DOMAIN db # {}

C16_Step ==
  \A c \in RpcClients, id \in Nodes :
    resp'.rpc = "join" /\ RpcJoin(c, id) =>
      /\ resp'.status = "ok"
      /\ DOMAIN cluster' = DOMAIN cluster \cup {id}
      /\ cluster'[id] = <<>>
      /\ \A m \in DOMAIN cluster : m # id => cluster'[m] = cluster[m]
      /\ db' = db
      /\ queues' = queues

\* C16: join(id) answers ok whatever the state; after it the sequence of id
\* exists and is empty, also when id was registered with keys waiting (so a
\* second join(id) gives the same result as the first); the sequences of
\* the other nodes, the store and the named queues are as before.
C16_JoinResets == [][C16_Step]_vars

\* C16 witness: a join of a registered id discarded MaxInval waiting keys;
\* the other node still has its own waiting, a key is stored and a named
\* queue holds a value.
C16_Witness ==
  \E m \in Nodes :
    /\ resp.rpc = "join" /\ m # resp.id
    /\ lost[resp.id] = MaxInval
    /\ cluster[resp.id] = <<>>
    /\ m \in DOMAIN cluster /\ Len(cluster[m]) = MaxInval
    /\ DOMAIN db # {}
    /\ DOMAIN queues # {}

\* C17: a pull_file whose key is absent from the store when the task reads
\* the value fails with not-found; the caller is not handed a stream that
\* ends cleanly.
C17_PullFileAbsentFails ==
  [][\A c \in RpcClients :
       call[c].rpc = "pull_file" /\ RpcPullFileTask(c) /\ call[c].key \notin DOMAIN db =>
         resp'.status = "not-found"]_vars

\* C18: once pull_file(k) has answered with its stream while the store held
\* v for k, the frames delivered carry v, whatever remove does after the
\* answer.  Stated for the values of whole frames, which the stream
\* carries complete when nothing interferes.
C18_PullFileSnapshot ==
  [][\A c \in RpcClients :
       /\ call[c].rpc = "pull_file" /\ RpcPullFileTask(c)
       /\ call[c].snap.ok /\ Len(call[c].snap.value) % MAX_BYTE_SIZE = 0
       => resp'.body = call[c].snap.value]_vars

C19_Step ==
  \A c \in RpcClients, f \in RpcStreams :
    \A i \in 0..Len(f) :
      resp'.rpc = "push_file" /\ RpcPushFileAbort(c, SubSeq(f, 1, i)) =>
        /\ resp'.status = "stream-error"
        /\ db' = db

\* C19: a push_file whose stream breaks before its end, after any number
\* of frames (none, the key only, the key and some or all of the value),
\* fails and leaves the store exactly as it was.
C19_AbortedStreamCommitsNothing == [][C19_Step]_vars

\* C19 witness: a push_file broke after it had received a key the store
\* lacks; the key is still absent and the other key is stored.
C19_Witness ==
  /\ resp.rpc = "push_file" /\ resp.status = "stream-error"
  /\ resp.key \in Keys
  /\ resp.key \notin DOMAIN db
  /\ DOMAIN db # {}

\* C20: a push_file whose stream ends after zero frames fails with
\* malformed-stream and leaves the store unchanged; no entry appears under
\* the empty key.
C20_EmptyStreamRejected ==
  [][\A c \in RpcClients :
       resp'.rpc = "push_file" /\ RpcPushFile(c, <<>>) =>
         /\ resp'.status = "malformed-stream"
         /\ db' = db
         /\ EmptyBytes \notin DOMAIN db']_vars

\* C21: update(id) for an id that never joined is answered with the error
\* unknown-node, returned by the handler (not a panic), and the store, the
\* invalidation sequences and the named queues are unchanged.
C21_UnknownNodeRejected ==
  [][\A c \in RpcClients, id \in Nodes :
       resp'.rpc = "update" /\ RpcUpdateUnjoined(c, id) =>
         /\ resp'.status = "unknown-node"
         /\ <<db, cluster, queues>>' = <<db, cluster, queues>>]_vars

\* C22: every entry of every node's cache is an entry the store holds or
\* has held (in the system of nodes the store gets its entries from the
\* nodes' writes only).
C22_CacheSubset ==
  \A n \in Nodes : \A k \in DOMAIN cache[n] : <<k, cache[n][k]>> \in held.entries

C23_Step ==
  \A n \in Nodes :
    pc'[n] = "idle" /\ pc[n] \in {"idle", "drain"} /\ DrainStep(n) =>
      LET p == IF pc[n] = "idle"
                 THEN [start |-> cluster[n], base |-> cache[n], got |-> {}]
                 ELSE pass[n]
      IN /\ cluster[n] = <<>>
         /\ \A i \in 1..Len(p.start) :
              p.start[i] \in p.got /\ p.start[i] \notin DOMAIN cache'[n]
         /\ DOMAIN cache'[n] = DOMAIN p.base \ p.got
         /\ \A k \in DOMAIN cache'[n] : cache'[n][k] = p.base[k]

C23_NoRemove == \A n \in Nodes, k \in OneKey : ~RemoveCall(n, k)

C23_Ends ==
  <>[][C23_NoRemove]_vars => \A n \in Nodes : (pc[n] = "drain" ~> pc[n] = "idle")

C24_Inner == {"queue_q"} \cup {InvMutex(id) : id \in Nodes}
C24_Outer(m) == IF m = "queue_q" THEN "queues" ELSE "cluster"
C24_Waits(h, m) ==
  /\ handler[h].todo # <<>>
  /\ Head(handler[h].todo) = Acq(m)

C24_Order ==
  \A h \in Handlers :
    /\ \A m \in C24_Inner : mutex[m] = h \/ C24_Waits(h, m) => mutex[C24_Outer(m)] = h
    /\ \A m \in {"cluster", "queues"} : C24_Waits(h, m) => \A i \in C24_Inner : mutex[i] # h
    /\ \A id \in Nodes : mutex[InvMutex(id)] = h \/ C24_Waits(h, InvMutex(id)) => mutex["db"] # h

C24_NoDeadlock ==
  \A S \in SUBSET Handlers :
    S # {} => \E h \in S : ~ \E m \in Mutexes : C24_Waits(h, m) /\ mutex[m] \in S

\* C24: a handler holds or asks for the mutex of a sequence or of a named
\* queue only while it holds the map that contains it, never asks for a map
\* while it holds such an inner mutex, and remove does not hold db while it
\* locks the invalidation sequences; and in no reachable state is there a
\* set of handlers each of which waits for a mutex held by one of the set.
C24_LockOrdering == C24_Order /\ C24_NoDeadlock

\* C24 witness: a remove holds the cluster map and a node's sequence, an
\* update waits for the cluster map, and a third handler holds db.
C24_Witness ==
  \E r \in Handlers, u \in Handlers, d \in Handlers :
    /\ handler[r].rpc = "remove" /\ mutex["cluster"] = r
    /\ \E id \in Nodes : mutex[InvMutex(id)] = r
    /\ handler[u].rpc = "update" /\ C24_Waits(u, "cluster")
    /\ handler[d].rpc \in {"push", "pull", "contains"} /\ mutex["db"] = d

\* How many times v occurs in seq.
C25_Count(seq, v) == Cardinality({i \in 1..Len(seq) : seq[i] = v})

C25_InQueue(q) == IF q \in DOMAIN queues THEN queues[q] ELSE <<>>

\* C25: whatever the interleaving of the clients' en_queue and de_queue
\* calls, at every state and for every queue each value has been enqueued
\* as many times as it has been returned by a successful de_queue plus
\* the times it is still in the queue: nothing is handed out twice and
\* nothing is lost.
C25_ExactlyOnce ==
  \A q \in QueueNames, v \in QueueValues :
    C25_Count(qhist[q].enq, v) = C25_Count(qhist[q].out, v) + C25_Count(C25_InQueue(q), v)

\* C25 witness: the same value was enqueued twice on a queue next to
\* another one; one copy has been handed out, the other two values still
\* wait, and the other queue is in use too.
C25_Witness ==
  \E q \in QueueNames, p \in QueueNames, v \in QueueValues :
    /\ p # q /\ qhist[p].enq # <<>>
    /\ Len(qhist[q].enq) = MaxEnq
    /\ C25_Count(qhist[q].enq, v) = 2
    /\ qhist[q].out = <<v>>
    /\ Len(C25_InQueue(q)) = MaxEnq - 1
    /\ C25_Count(C25_InQueue(q), v) = 1

====
